---- MODULE Spec2Model ----
(***************************************************************************)
(* Model of manage.py, the server manager of the Knowledge Research        *)
(* Assistant: the subcommands start, stop, restart, status and help, run   *)
(* one invocation after another against an environment made of the OS      *)
(* process table, the HTTP port 3000 and a few files.                      *)
(*                                                                         *)
(* The controller is sequential and blocking; it is cut into steps at the  *)
(* places where it observes or changes the environment (a probe, a scan,   *)
(* a signal, a launch), because the environment moves between them: a      *)
(* launched server takes time to listen, a terminate() request is          *)
(* delivered asynchronously.                                               *)
(*                                                                         *)
(* The process table holds the Node.js processes that run server.js, the   *)
(* ones find_node_processes() selects.  A process leaves the table when a  *)
(* termination signal reaches it or when it cannot bind the port.          *)
(***************************************************************************)
EXTENDS Integers, Sequences, FiniteSets, TLC

\* Number of process identifiers the process table can hold.
NumPids == 2

PIDS == 1..NumPids

VARIABLES
    \* ---- environment
    nodeStatus,     \* what `node --version` does: "ok", "nonzero", "notfound"
    node_modules,   \* whether the node_modules directory exists
    envFile,        \* state of the .env file
    proc,           \* process table: pid -> "none" | "booting" | "serving" | "broken"
    term,           \* pids with a termination signal sent and not yet delivered
    \* ---- controller (one invocation of manage.py at a time)
    cmd,            \* the subcommand of the current (or last) invocation
    pc,             \* position in the code
    exit,           \* how the invocation ended
    out,            \* outcome messages printed by the invocation, in order
    pids,           \* stop_server / check_status: result of find_node_processes()
    k,              \* stop_server: index of the next pid of the for loop
    i,              \* start_server: number of polls done (the loop variable)
    has_valid_env,  \* start_server: result of check_env_file()
    \* ---- history of the current invocation (observers, not read by the code)
    live0,          \* whether the server answered 200 when the invocation began
    startProbe,     \* result of start_server's initial probe: "none", "true", "false"
    checks,         \* prerequisite checks run by start_server
    spawns,         \* number of server launches
    pollsTrue,      \* number of polls of start_server that returned true
    attempted,      \* pids on which stop_server called terminate()
    confirms,       \* number of probes made by stop_server
    lastOutcome,    \* what the last HTTP probe got
    lastResult,     \* what is_server_running() returned for it
    absorbed,       \* whether a probe of the invocation swallowed a Ctrl-C
    shown,          \* pids printed by check_status
    e2e             \* progress of an undisturbed start, status, stop, status sequence

env == <<nodeStatus, node_modules, envFile, proc, term>>
ctl == <<cmd, pc, exit, out, pids, k, i, has_valid_env>>
obs == <<live0, startProbe, checks, spawns, pollsTrue, attempted, confirms,
         lastOutcome, lastResult, absorbed, shown>>
vars == <<env, ctl, obs, e2e>>

----------------------------------------------------------------------------
\* Pure functions of the controller.

\* range(10) of the polling loop.
PollMax_oneMore == 10 + 1
PollMax == 10

NoProbe == [status |-> 0, exc |-> "none"]
Response(s) == [status |-> s, exc |-> ""]
Raised(e) == [status |-> 0, exc |-> e]

\* is_server_running(): the value returned for what requests.get() did.
\* A bare `except:` turns every exception, KeyboardInterrupt included, into False.
is_server_running_ok(o) == IF o.exc = "" THEN o.status < 400 ELSE FALSE
is_server_running(o) == IF o.exc = "" THEN o.status = 200 ELSE FALSE

\* check_node_installed(): True only when `node --version` ran and returned 0.
check_node_installed_always(st) == TRUE
check_node_installed(st) == st = "ok"

\* Content of the .env file, as far as check_env_file() reads it.
EnvFiles == {"missing", "template", "skproj", "onekey", "valid"}
HasYOUR(f) == f = "template"
HasSkProj(f) == f = "skproj"
PplxCount(f) == CASE f = "onekey" -> 1 [] f = "valid" -> 2 [] OTHER -> 0

\* check_env_file(): its return value.
check_env_file(f) ==
    IF f = "missing" THEN FALSE
    ELSE IF HasYOUR(f) \/ HasSkProj(f) \/ PplxCount(f) = 1 THEN FALSE
    ELSE TRUE

\* check_env_file(): the file it leaves behind (the template is written when
\* the file is missing, an existing file is left alone).
EnvFileAfter(f) == IF f = "missing" THEN "template" ELSE f

\* The except clauses of the __main__ block.
TopLevel_onlyInterrupt(exc) ==
    IF exc = "KeyboardInterrupt" THEN "interrupted" ELSE "unhandled"
TopLevel(exc) ==
    CASE exc = "KeyboardInterrupt" -> "interrupted"
      [] exc \in {"CalledProcessError", "FileNotFoundError", "OSError"} -> "error"
      [] OTHER -> "unhandled"

\* The message the __main__ block prints for an exception it catches.
TopLevelMsg(exc) ==
    CASE TopLevel(exc) = "interrupted" -> <<"interrupted_by_user">>
      [] TopLevel(exc) = "error" -> <<"error">>
      [] OTHER -> <<>>

RECURSIVE Ascending(_)
Ascending(S) ==
    IF S = {} THEN <<>>
    ELSE LET m == CHOOSE x \in S : \A y \in S : x <= y
         IN <<m>> \o Ascending(S \ {m})

\* find_node_processes(): the pids of the table (psutil.process_iter yields
\* them in ascending order).
find_node_processes == Ascending({p \in PIDS : proc[p] # "none"})

Range(s) == {s[n] : n \in 1..Len(s)}

----------------------------------------------------------------------------
\* Environment.

Live == \E p \in PIDS : proc[p] = "serving"
PortHeld == \E p \in PIDS : proc[p] \in {"serving", "broken"}

\* What requests.get('http://localhost:3000/api/load-files', timeout=2) can do.
ProbeOutcomes ==
    (IF Live THEN {Response(200)}
     ELSE IF PortHeld THEN {Response(204), Response(500), Raised("ReadTimeout")}
     ELSE {Raised("ConnectionError")})
    \cup {Raised("KeyboardInterrupt")}

TypeOK ==
    /\ nodeStatus \in {"ok", "nonzero", "notfound"}
    /\ node_modules \in BOOLEAN
    /\ envFile \in EnvFiles
    /\ proc \in [PIDS -> {"none", "booting", "serving", "broken"}]
    /\ term \subseteq PIDS
    /\ cmd \in {"none", "start", "stop", "restart", "status", "help"}
    /\ exit \in {"running", "ok", "error", "interrupted", "unhandled"}
    /\ i \in 0..PollMax
    /\ has_valid_env \in BOOLEAN

Init ==
    /\ nodeStatus \in {"ok", "nonzero", "notfound"}
    /\ node_modules \in BOOLEAN
    /\ envFile \in EnvFiles
    /\ proc \in [PIDS -> {"none", "booting", "serving", "broken"}]
    \* one port, one listener; a server process needs the runtime
    /\ Cardinality({p \in PIDS : proc[p] \in {"serving", "broken"}}) <= 1
    /\ (\E p \in PIDS : proc[p] # "none") => nodeStatus = "ok"
    /\ term = {}
    /\ cmd = "none" /\ pc = "idle" /\ exit = "ok" /\ out = <<>>
    /\ pids = <<>> /\ k = 1 /\ i = 0 /\ has_valid_env = FALSE
    /\ live0 = FALSE /\ startProbe = "none" /\ checks = {} /\ spawns = 0
    /\ pollsTrue = 0 /\ attempted = {} /\ confirms = 0
    /\ lastOutcome = NoProbe /\ lastResult = FALSE /\ absorbed = FALSE /\ shown = {}
    /\ e2e = "idle"

\* A launched server finishes booting: it binds port 3000 and answers 200,
\* or binds it and answers something else, or finds the port taken and exits.
Boot(p) ==
    /\ proc[p] = "booting"
    /\ IF PortHeld
       THEN /\ proc' = [proc EXCEPT ![p] = "none"]
            /\ term' = term \ {p}
       ELSE /\ \E st \in {"serving", "broken"} : proc' = [proc EXCEPT ![p] = st]
            /\ term' = term
    /\ e2e' = "idle"
    /\ UNCHANGED <<nodeStatus, node_modules, envFile, ctl, obs>>

\* A termination signal sent by proc.terminate() reaches its process.
Deliver(p) ==
    /\ p \in term
    /\ proc' = [proc EXCEPT ![p] = "none"]
    /\ term' = term \ {p}
    \* a delivery while stop_server signals and waits is what the stop is for
    /\ e2e' = IF pc \in {"t_kill", "t_confirm"} THEN e2e ELSE "idle"
    /\ UNCHANGED <<nodeStatus, node_modules, envFile, ctl, obs>>

----------------------------------------------------------------------------
\* Controller.

Commands == {"start", "stop", "restart", "status", "help"}

FirstPc(c) ==
    CASE c = "start" -> "s_probe"
      [] c = "stop" -> "t_scan"
      [] c = "restart" -> "t_scan"
      [] c = "status" -> "c_probe"
      [] c = "help" -> "h_show"

E2EStopped == {"stoppedOK", "stoppedMaybe", "stoppedNone"}

\* main(): dispatch of sys.argv[1] to its function.
Begin(c) ==
    /\ pc \in {"idle", "done"}
    /\ cmd' = c /\ pc' = FirstPc(c) /\ exit' = "running" /\ out' = <<>>
    /\ pids' = <<>> /\ k' = 1 /\ i' = 0 /\ has_valid_env' = FALSE
    /\ live0' = Live /\ startProbe' = "none" /\ checks' = {} /\ spawns' = 0
    /\ pollsTrue' = 0 /\ attempted' = {} /\ confirms' = 0
    /\ lastOutcome' = NoProbe /\ lastResult' = FALSE /\ absorbed' = FALSE
    /\ shown' = {}
    /\ e2e' = IF \/ (e2e = "started" /\ c = "status")
                 \/ (e2e = "checked" /\ c = "stop")
                 \/ (e2e \in E2EStopped /\ c = "status")
              THEN e2e ELSE "idle"
    /\ UNCHANGED env

\* show_help()
Help ==
    /\ pc = "h_show"
    /\ out' = out \o <<"help">> /\ pc' = "done" /\ exit' = "ok"
    /\ UNCHANGED <<env, cmd, pids, k, i, has_valid_env, obs, e2e>>

\* An exception leaves the running function and main(), and reaches the
\* try statement of the __main__ block.
Raise(exc) ==
    /\ pc' = "done"
    /\ exit' = TopLevel(exc)
    /\ out' = out \o TopLevelMsg(exc)
    /\ e2e' = "idle"

\* Ctrl-C while the controller sleeps (time.sleep raises KeyboardInterrupt).
Interrupt ==
    /\ pc \in {"s_poll", "t_confirm", "r_sleep"}
    /\ Raise("KeyboardInterrupt")
    /\ UNCHANGED <<env, cmd, pids, k, i, has_valid_env, obs>>

\* The observers of one HTTP probe with outcome o.
Probed(o) ==
    /\ lastOutcome' = o
    /\ lastResult' = is_server_running(o)
    /\ absorbed' = (absorbed \/ o.exc = "KeyboardInterrupt")

E2EAfterProbe(o) == IF o.exc = "KeyboardInterrupt" THEN "idle" ELSE e2e

\* ---- start_server

\* start_server returns to main(), which returns: the invocation ends.
Finish(msgs) ==
    /\ out' = out \o msgs
    /\ pc' = "done"
    /\ exit' = "ok"

\* The branch on the initial probe.
StartBranch_noShortcut(running) == "s_node"
StartBranch(running) == IF running THEN "return" ELSE "s_node"

\* if is_server_running(): notice and return
StartProbe ==
    /\ pc = "s_probe"
    /\ \E o \in ProbeOutcomes :
        /\ Probed(o)
        /\ startProbe' = IF is_server_running(o) THEN "true" ELSE "false"
        /\ IF StartBranch(is_server_running(o)) = "return"
           THEN Finish(<<"already_running">>)
           ELSE /\ pc' = StartBranch(is_server_running(o))
                /\ UNCHANGED <<exit, out>>
    /\ e2e' = "idle"
    /\ UNCHANGED <<env, cmd, pids, k, i, has_valid_env>>
    /\ UNCHANGED <<live0, checks, spawns, pollsTrue, attempted, confirms, shown>>

\* if not check_node_installed(): return
StartNode ==
    /\ pc = "s_node"
    /\ checks' = checks \cup {"node"}
    /\ IF check_node_installed(nodeStatus)
       THEN pc' = "s_deps" /\ UNCHANGED <<exit, out>>
       ELSE Finish(<<"node_missing">>)
    /\ UNCHANGED <<env, cmd, pids, k, i, has_valid_env, e2e>>
    /\ UNCHANGED <<live0, startProbe, spawns, pollsTrue, attempted, confirms,
                   lastOutcome, lastResult, absorbed, shown>>

\* check_dependencies(): `npm install` with check=True when node_modules is
\* missing; a failed install raises CalledProcessError.
StartDeps ==
    /\ pc = "s_deps"
    /\ checks' = checks \cup {"deps"}
    /\ \/ /\ node_modules' = TRUE
          /\ pc' = "s_env"
          /\ UNCHANGED <<exit, out, e2e>>
       \/ /\ ~node_modules
          /\ Raise("CalledProcessError")
          /\ UNCHANGED node_modules
    /\ UNCHANGED <<nodeStatus, envFile, proc, term, cmd, pids, k, i, has_valid_env>>
    /\ UNCHANGED <<live0, startProbe, spawns, pollsTrue, attempted, confirms,
                   lastOutcome, lastResult, absorbed, shown>>

\* has_valid_env = check_env_file(); the launch follows whatever it returns.
StartEnv ==
    /\ pc = "s_env"
    /\ checks' = checks \cup {"env"}
    /\ has_valid_env' = check_env_file(envFile)
    /\ envFile' = EnvFileAfter(envFile)
    /\ pc' = "s_spawn"
    /\ UNCHANGED <<nodeStatus, node_modules, proc, term, cmd, exit, out, pids, k, i, e2e>>
    /\ UNCHANGED <<live0, startProbe, spawns, pollsTrue, attempted, confirms,
                   lastOutcome, lastResult, absorbed, shown>>

\* subprocess.Popen(...): the server is launched, once, or Popen raises.
StartSpawn ==
    /\ pc = "s_spawn"
    /\ \/ /\ \E p \in PIDS :
               /\ proc[p] = "none"
               /\ proc' = [proc EXCEPT ![p] = "booting"]
          /\ spawns' = spawns + 1
          /\ pc' = "s_poll"
          /\ UNCHANGED <<exit, out, e2e>>
       \/ /\ Raise("FileNotFoundError")
          /\ UNCHANGED <<proc, spawns>>
    /\ UNCHANGED <<nodeStatus, node_modules, envFile, term, cmd, pids, k, i, has_valid_env>>
    /\ UNCHANGED <<live0, startProbe, checks, pollsTrue, attempted, confirms,
                   lastOutcome, lastResult, absorbed, shown>>

\* The messages of a successful start.
StartedMsgs(valid) ==
    IF valid THEN <<"started">> ELSE <<"started", "env_reminder">>

\* One iteration of `for i in range(10)`: sleep 1 second, probe, return on true;
\* the failure message follows the last iteration.
StartPoll ==
    /\ pc = "s_poll"
    /\ i < PollMax
    /\ i' = i + 1
    /\ \E o \in ProbeOutcomes :
        /\ Probed(o)
        /\ IF is_server_running(o)
           THEN /\ Finish(StartedMsgs(has_valid_env))
                /\ pollsTrue' = pollsTrue + 1
                /\ e2e' = "started"
           ELSE /\ IF i + 1 = PollMax
                   THEN Finish(<<"start_failed">>)
                   ELSE pc' = "s_poll" /\ UNCHANGED <<exit, out>>
                /\ UNCHANGED pollsTrue
                /\ e2e' = "idle"
    /\ UNCHANGED <<env, cmd, pids, k, has_valid_env>>
    /\ UNCHANGED <<live0, startProbe, checks, spawns, attempted, confirms, shown>>

\* ---- stop_server

\* stop_server returns: to restart_server when it called, else to main().
StopReturn(msgs) ==
    /\ out' = out \o msgs
    /\ IF cmd = "restart"
       THEN pc' = "r_sleep" /\ exit' = exit
       ELSE pc' = "done" /\ exit' = "ok"

\* if not pids: report and return; else the for loop.
StopBranch_probeAnyway(ps) == "t_confirm"
StopBranch(ps) == IF ps = <<>> THEN "return" ELSE "t_kill"

\* pids = find_node_processes()
StopScan ==
    /\ pc = "t_scan"
    /\ pids' = find_node_processes
    /\ k' = 1
    /\ IF StopBranch(pids') = "return"
       THEN /\ StopReturn(<<"none_found">>)
            /\ e2e' = IF e2e = "checked" THEN "stoppedNone" ELSE "idle"
       ELSE /\ pc' = StopBranch(pids')
            /\ UNCHANGED <<exit, out, e2e>>
    /\ UNCHANGED <<env, cmd, i, has_valid_env, obs>>

\* Where the for loop goes after the pid at index kk of n, whose terminate()
\* raised (failed) or not: the except clause is inside the loop.
KillNext_breakOnFailure(kk, n, failed) ==
    IF failed \/ kk >= n THEN "t_confirm" ELSE "t_kill"
KillNext(kk, n, failed) == IF kk >= n THEN "t_confirm" ELSE "t_kill"

\* One iteration of `for pid in pids`: psutil.Process(pid).terminate() sends
\* the signal, or raises NoSuchProcess (the process is gone) or AccessDenied.
StopKill ==
    /\ pc = "t_kill"
    /\ k <= Len(pids)
    /\ LET pid == pids[k] IN
        /\ attempted' = attempted \cup {pid}
        /\ \/ /\ proc[pid] # "none"
              /\ term' = term \cup {pid}
              /\ out' = out \o <<"stopped_pid">>
              /\ pc' = KillNext(k, Len(pids), FALSE)
           \/ /\ proc[pid] # "none"
              /\ out' = out \o <<"could_not_stop">>
              /\ pc' = KillNext(k, Len(pids), TRUE)
              /\ UNCHANGED term
           \/ /\ proc[pid] = "none"
              /\ out' = out \o <<"could_not_stop">>
              /\ pc' = KillNext(k, Len(pids), TRUE)
              /\ UNCHANGED term
    /\ k' = k + 1
    /\ UNCHANGED <<nodeStatus, node_modules, envFile, proc, cmd, exit, pids, i,
                   has_valid_env, e2e>>
    /\ UNCHANGED <<live0, startProbe, checks, spawns, pollsTrue, confirms,
                   lastOutcome, lastResult, absorbed, shown>>

\* The message after the confirming probe.
StopReport_alwaysStopped(running) == "stopped"
StopReport(running) == IF ~running THEN "stopped" ELSE "maybe_running"

\* time.sleep(1), then is_server_running() once, and the report.
StopConfirm ==
    /\ pc = "t_confirm"
    /\ confirms' = confirms + 1
    /\ \E o \in ProbeOutcomes :
        /\ Probed(o)
        /\ StopReturn(<<StopReport(is_server_running(o))>>)
        /\ e2e' = IF e2e = "checked" /\ o.exc # "KeyboardInterrupt"
                  THEN (IF StopReport(is_server_running(o)) = "stopped"
                        THEN "stoppedOK" ELSE "stoppedMaybe")
                  ELSE "idle"
    /\ UNCHANGED <<env, cmd, pids, k, i, has_valid_env>>
    /\ UNCHANGED <<live0, startProbe, checks, spawns, pollsTrue, attempted, shown>>

\* ---- restart_server: stop_server(), time.sleep(2), start_server()

RestartSleep ==
    /\ pc = "r_sleep"
    /\ pc' = "s_probe"
    /\ UNCHANGED <<env, cmd, exit, out, pids, k, i, has_valid_env, obs, e2e>>

\* ---- check_status

E2EAfterStatus ==
    CASE e2e = "started" -> "checked"
      [] e2e = "stoppedOK" -> "afterOK"
      [] e2e = "stoppedMaybe" -> "afterMaybe"
      [] e2e = "stoppedNone" -> "afterNone"
      [] OTHER -> "idle"

\* The liveness line check_status prints.
StatusReport(running) == IF running THEN "running" ELSE "not_running"

\* Whether check_status goes on to find_node_processes().
StatusScans_always(running) == TRUE
StatusScans(running) == running

\* if is_server_running(): ... else: ...
StatusProbe ==
    /\ pc = "c_probe"
    /\ \E o \in ProbeOutcomes :
        /\ Probed(o)
        /\ IF StatusScans(is_server_running(o))
           THEN /\ out' = out \o <<StatusReport(is_server_running(o))>>
                /\ pc' = "c_scan"
                /\ exit' = exit
                /\ e2e' = E2EAfterProbe(o)
           ELSE /\ Finish(<<StatusReport(is_server_running(o))>>)
                /\ e2e' = IF o.exc = "KeyboardInterrupt" THEN "idle" ELSE E2EAfterStatus
    /\ UNCHANGED <<env, cmd, pids, k, i, has_valid_env>>
    /\ UNCHANGED <<live0, startProbe, checks, spawns, pollsTrue, attempted, confirms, shown>>

\* pids = find_node_processes(); the list is printed when it is not empty.
StatusScan ==
    /\ pc = "c_scan"
    /\ pids' = find_node_processes
    /\ shown' = Range(pids')
    /\ Finish(IF pids' # <<>> THEN <<"pids">> ELSE <<>>)
    /\ e2e' = E2EAfterStatus
    /\ UNCHANGED <<env, cmd, k, i, has_valid_env>>
    /\ UNCHANGED <<live0, startProbe, checks, spawns, pollsTrue, attempted, confirms,
                   lastOutcome, lastResult, absorbed>>

----------------------------------------------------------------------------

Controller ==
    \/ \E c \in Commands : Begin(c)
    \/ Help
    \/ StartProbe \/ StartNode \/ StartDeps \/ StartEnv \/ StartSpawn \/ StartPoll
    \/ StopScan \/ StopKill \/ StopConfirm
    \/ RestartSleep
    \/ StatusProbe \/ StatusScan

Environment == \E p \in PIDS : Boot(p) \/ Deliver(p)

Next == Controller \/ Interrupt \/ Environment

Spec == Init /\ [][Next]_vars

\* start_server on its own, from any state an earlier invocation can leave
\* behind: processes in any state, termination signals still on their way.
StartInit ==
    /\ nodeStatus \in {"ok", "nonzero", "notfound"}
    /\ node_modules \in BOOLEAN
    /\ envFile \in EnvFiles
    /\ proc \in [PIDS -> {"none", "booting", "serving", "broken"}]
    /\ Cardinality({p \in PIDS : proc[p] \in {"serving", "broken"}}) <= 1
    /\ (\E p \in PIDS : proc[p] # "none") => nodeStatus = "ok"
    /\ term \in SUBSET {p \in PIDS : proc[p] # "none"}
    /\ cmd = "none" /\ pc = "idle" /\ exit = "ok" /\ out = <<>>
    /\ pids = <<>> /\ k = 1 /\ i = 0 /\ has_valid_env = FALSE
    /\ live0 = FALSE /\ startProbe = "none" /\ checks = {} /\ spawns = 0
    /\ pollsTrue = 0 /\ attempted = {} /\ confirms = 0
    /\ lastOutcome = NoProbe /\ lastResult = FALSE /\ absorbed = FALSE /\ shown = {}
    /\ e2e = "idle"

StartRunning ==
    StartProbe \/ StartNode \/ StartDeps \/ StartEnv \/ StartSpawn \/ StartPoll

StartNext == Begin("start") \/ StartRunning \/ Interrupt \/ Environment

\* The controller is a running program: a start under way takes its next step.
\* Nothing is assumed of the environment or of the operator.
StartFairSpec == StartInit /\ [][StartNext]_vars /\ WF_vars(StartRunning)

----------------------------------------------------------------------------
\* Properties.

Last(s) == s[Len(s)]
Said(m) == m \in Range(out)

\* C1: when start_server's initial liveness probe returns true, the start does
\* nothing more: no launch, no prerequisite check, no poll; it has returned
\* normally and the last thing printed is the already-running notice.
C1_StartOnLiveServerIsNoOp ==
    startProbe = "true" =>
        /\ spawns = 0
        /\ checks = {}
        /\ i = 0
        /\ pc = "done" /\ exit = "ok"
        /\ Last(out) = "already_running"

C1_Witness ==
    /\ cmd = "start" /\ pc = "done" /\ startProbe = "true"
    /\ lastOutcome = Response(200) /\ out = <<"already_running">>

\* C2: a restart of a server that was live, once it has returned (the operator
\* pressed no Ctrl-C), leaves a live server, whenever the termination signals
\* are delivered.
C2_RestartLeavesServerLive ==
    (cmd = "restart" /\ pc = "done" /\ exit = "ok" /\ live0 /\ ~absorbed) => Live

C4_StopOnNonRunning_AsClaimed ==
    (cmd = "stop" /\ ~live0) =>
        /\ attempted = {}
        /\ pc = "done" => (exit = "ok" /\ out = <<"none_found">>)

\* C4 as amended: a stop whose find_node_processes() returned the empty list
\* ends normally with nothing-to-stop, having sent no termination signal and
\* made no liveness probe.
C4_StopWithNothingFound ==
    (cmd = "stop" /\ pc # "t_scan" /\ pids = <<>>) =>
        /\ pc = "done" /\ exit = "ok"
        /\ out = <<"none_found">>
        /\ attempted = {}
        /\ confirms = 0 /\ lastOutcome = NoProbe

C4_Witness ==
    /\ cmd = "stop" /\ pc = "done" /\ pids = <<>> /\ out = <<"none_found">>
    /\ ~live0 /\ term = {}

\* C5, the safety part: at most 10 polls, all after the launch; the first poll
\* that returns true ends the polling with the success report; the failure
\* report is printed exactly when 10 polls were made and none returned true.
C5_PollSafety ==
    /\ i <= 10
    /\ i > 0 => spawns = 1
    /\ pollsTrue <= 1
    /\ pollsTrue = 1 <=> Said("started")
    /\ pollsTrue = 1 => (pc = "done" /\ exit = "ok" /\ lastResult)
    /\ Said("start_failed") <=> (i = 10 /\ pollsTrue = 0)
    /\ Said("start_failed") => (pc = "done" /\ exit = "ok" /\ ~lastResult)

\* C5: the safety part holds always, and a start that has launched the server
\* and is polling ends.
C5_BoundedPoll == []C5_PollSafety /\ ((pc = "s_poll") ~> (pc = "done"))

C5_Witness == Said("start_failed") /\ i = 10 /\ cmd = "start"

\* C6: whenever a probe was made, is_server_running() returned true exactly
\* when the probe got an HTTP response with status 200; any other status and
\* any exception gave false.
C6_RunningIffStatus200 ==
    lastOutcome # NoProbe =>
        /\ lastResult \in BOOLEAN
        /\ lastResult <=> (lastOutcome.exc = "" /\ lastOutcome.status = 200)

C6_Witness == lastOutcome = Response(204) /\ lastResult = FALSE /\ cmd = "status"

\* C7 as claimed: whenever status ends, it has printed the identifiers that
\* find_node_processes() gives at that moment, whatever the probe returned.
C7_StatusShowsPids_AsClaimed ==
    [][(cmd = "status" /\ pc # "done" /\ pc' = "done" /\ exit' = "ok")
           => shown' = Range(find_node_processes)]_vars

\* C7 as amended: status launches nothing, signals nothing and checks no
\* prerequisite; it reports running exactly when its probe returned true; then
\* it prints the identifiers find_node_processes() returned, when there are
\* any; when the probe returned false it makes no scan and prints none.
C7_StatusReport ==
    cmd = "status" =>
        /\ spawns = 0 /\ attempted = {} /\ checks = {}
        /\ (pc = "done" /\ exit = "ok" /\ lastResult) =>
              /\ out[1] = "running"
              /\ shown = Range(pids)
              /\ out = IF pids # <<>> THEN <<"running", "pids">> ELSE <<"running">>
        /\ (pc = "done" /\ exit = "ok" /\ ~lastResult) =>
              /\ out = <<"not_running">>
              /\ shown = {} /\ pids = <<>>

C7_Witness ==
    /\ cmd = "status" /\ pc = "done" /\ out = <<"not_running">>
    /\ find_node_processes # <<>> /\ e2e = "idle" /\ shown = {}

OutcomeTags ==
    {"already_running", "node_missing", "started", "env_reminder", "start_failed",
     "none_found", "stopped", "maybe_running", "running", "pids", "not_running",
     "help"}

\* C8: no exception is left unhandled; an invocation that has ended either
\* returned normally with its outcome printed last, or raised an exception
\* that the top level caught and reported with its message.  A missing runtime
\* and a poll timeout end normally with their own message.
C8_FailuresAreReported ==
    /\ exit # "unhandled"
    /\ pc = "done" =>
        /\ exit \in {"ok", "error", "interrupted"}
        /\ out # <<>>
        /\ exit = "ok" => Last(out) \in OutcomeTags
        /\ exit = "error" => Last(out) = "error"
        /\ exit = "interrupted" => Last(out) = "interrupted_by_user"
    /\ (pc = "done" /\ checks = {"node"}) => (exit = "ok" /\ Last(out) = "node_missing")
    /\ (pc = "done" /\ i = 10 /\ pollsTrue = 0 /\ exit # "interrupted") =>
           (exit = "ok" /\ Last(out) = "start_failed")

C8_Witness == pc = "done" /\ exit = "error" /\ Last(out) = "error" /\ spawns = 0 /\ "env" \in checks

\* C9: a stop that found processes calls terminate() on every one of them, in
\* list order, whether or not an earlier call failed; the liveness probe is
\* made once, after the last of them, and the report is "stopped" when that
\* probe returned false and "may still be running" when it returned true.
C9_StopSignalsAllThenProbesOnce ==
    /\ confirms <= 1
    /\ pc = "t_kill" =>
          /\ confirms = 0
          /\ k <= Len(pids)
          /\ attempted = {pids[j] : j \in 1..(k - 1)}
    /\ (pc = "t_confirm" \/ confirms = 1) => (pids # <<>> /\ attempted = Range(pids))
    /\ (Said("stopped") \/ Said("maybe_running")) => confirms = 1
    /\ (cmd = "stop" /\ pc = "done" /\ exit = "ok" /\ pids # <<>>) =>
          /\ confirms = 1
          /\ Len(out) = Len(pids) + 1
          /\ \A j \in 1..Len(pids) : out[j] \in {"stopped_pid", "could_not_stop"}
          /\ Last(out) = IF lastResult THEN "maybe_running" ELSE "stopped"

C9_Witness ==
    /\ cmd = "stop" /\ pc = "done"
    /\ out = <<"could_not_stop", "stopped_pid", "maybe_running">>

\* C10: a start launches the server at most once, and only after its initial
\* probe returned false and with the runtime installed, all three prerequisite
\* checks made; a start that got past the configuration check with a missing
\* or placeholder file and returned normally did launch.
C10_SpawnOnceAfterChecks ==
    /\ spawns <= 1
    /\ spawns = 1 =>
          /\ startProbe = "false"
          /\ nodeStatus = "ok"
          /\ checks = {"node", "deps", "env"}
    /\ ("env" \in checks /\ ~has_valid_env /\ pc = "done" /\ exit = "ok") => spawns = 1

C10_Witness ==
    /\ spawns = 1 /\ ~has_valid_env /\ envFile = "template" /\ Said("started")

====
